---- MODULE Spec2Model ----
(***************************************************************************)
(* State-machine model of the test-automation framework:                   *)
(*   - PlaywrightWaitStrategy (src/src/web/wait.py): the polling loop      *)
(*     _wait_with_backoff and its entry points wait_until, wait_for and    *)
(*     wait_for_any;                                                       *)
(*   - WebDriver (src/src/web/driver.py): the context-manager life cycle   *)
(*     __enter__/__exit__ and the navigation methods wrapped by            *)
(*     convert_exceptions (src/src/utils/error_handling.py).               *)
(*   - the layered configuration of src/src/utils/config/manager.py and    *)
(*     deep_merge; the retry decorator; the run_and_notify pipeline;       *)
(*     PaymentService.create_unified_order; OmpLoginPage's captcha login   *)
(*     loop; and the Playwright condition-handler registry.                *)
(* Time is counted in integer ticks; a product P * B^k that is not a whole *)
(* number of ticks is rounded down to the tick.                            *)
(***************************************************************************)
EXTENDS Integers, Sequences, FiniteSets, TLC

\* ---------------------------------------------------------------- bounds
MaxTimeout == 3         \* largest timeout argument of a call, in ticks
MaxConds == 2           \* most conditions handed to wait_for_any

\* ---------------------------------------------------------- input domains
\* Constructor arguments of PlaywrightWaitStrategy, in ticks.  default_timeout
\* is even, so that default_timeout / 2 is a whole number of ticks.
DefaultTimeouts == {4}
DefaultPolls == {1}
Caps == {1, 3}
\* Explicit poll_frequency arguments of a call.
PollFrequencies == {2}
\* How long one condition_fn() call takes, and how far the clock moves
\* between the two time.time() reads of one pass.
CallTicks == {0, 1}
ReadGaps == {0, 1}

\* ------------------------------------------------------- values and types
\* Optional[float] = None for the timeout and poll_frequency arguments.
NoneArg == -1

\* What a condition function can return: None, a falsy non-None value, or
\* one of two distinct truthy results (Locators).
FalsyValues == {"None", "False"}
TruthyValues == {"loc1", "loc2"}
Values == FalsyValues \cup TruthyValues

\* Exception classes a condition function can raise (subclasses of Exception):
\* the framework's TimeoutError, or any class that is not one (ValueError).
CondExceptions == {"TimeoutError", "ValueError"}
Outcomes == Values \cup CondExceptions

\* backoff_factor as a fraction <<numerator, denominator>>: 1, 1.5 (the
\* default) and 2.
Factors == {<<1, 1>>, <<3, 2>>, <<2, 1>>}

\* The message argument: None, the empty string, or a caller's text.
CallerMessages == {"None", "", "custom"}

Min(a, b) == IF a <= b THEN a ELSE b

RECURSIVE Pow(_, _)
Pow(b, k) == IF k = 0 THEN 1 ELSE b * Pow(b, k - 1)

VARIABLES
    \* PlaywrightWaitStrategy fields
    ws_page,                \* TRUE when self._page is set
    default_timeout,
    default_poll_frequency,
    backoff_factor,
    max_poll_frequency,
    \* the clock
    now,
    \* the running wait call
    wpc,                    \* "idle", "poll", "sleeping", "returned", "raised"
    entry,                  \* "none", "wait_until", "wait_for", "wait_for_any"
    actual_timeout,
    actual_poll_frequency,
    message,                \* the message handed to _wait_with_backoff
    caller_message,         \* the message the caller gave to the entry point
    nconds,                 \* len(conditions) of wait_for_any
    start_time,
    end_time,
    attempt_count,
    current_poll_frequency,
    wait_time,
    result,                 \* the value returned to the caller
    wexc,                   \* the exception class that escaped, "none" if none
    error_msg,              \* the message of the escaped exception
    \* observations of the run
    wsrc,                   \* where the escaped exception arose
    cond_exc,               \* the class the condition raised, when wsrc = "condition"
    cycle,                  \* what each condition did in the pass that ended the wait
    first_truthy,           \* the first truthy value a condition_fn() call returned
    after_truthy,           \* condition_fn() and sleep() calls made after it
    any_truthy,             \* some condition was truthy in some pass
    all_falsy               \* every condition_fn() call so far returned falsy

wsFields == <<ws_page, default_timeout, default_poll_frequency, backoff_factor,
              max_poll_frequency>>
callVars == <<entry, actual_timeout, actual_poll_frequency, message,
              caller_message, nconds, start_time, end_time>>
loopVars == <<attempt_count, current_poll_frequency, wait_time, result, wexc,
              error_msg>>
obsVars == <<wsrc, cond_exc, cycle, first_truthy, after_truthy, any_truthy,
             all_falsy>>
waitVars == <<wsFields, now, wpc, callVars, loopVars, obsVars>>

\* ------------------------------------------------ PlaywrightWaitStrategy
\* Truthy with an identity test against one expected result in place of
\* Python truthiness.
TruthyOnlyFirst(v) == v = "loc1"

\* `if result:`
Truthy(v) == v \in TruthyValues

\* Expired with > in place of >=.
ExpiredStrict(cur, deadline) == cur > deadline

\* `if current_time >= end_time:`
Expired(cur, deadline) == cur >= deadline

\* min(actual_poll_frequency * (self._backoff_factor ** attempt_count),
\*     self._max_poll_frequency)
PollFrequency(p, factor, attempts, cap) ==
    Min((p * Pow(factor[1], attempts)) \div Pow(factor[2], attempts), cap)

\* wait_time = min(current_poll_frequency, remaining)
WaitTime(freq, remaining) == Min(freq, remaining)

\* `x or y` on messages: None and "" are falsy.
MsgOr(m, dflt) == IF m.text \in {"None", ""} THEN dflt ELSE m

CallerMsg(m) == [text |-> m, secs |-> 0]

\* TimeoutMessage that ignores the message argument.
TimeoutMessageElapsedOnly(m, el) == [text |-> "elapsed", secs |-> el]

\* error_msg = message or f"等待超时，已等待{elapsed:.2f}秒"
TimeoutMessage(m, el) == MsgOr(m, [text |-> "elapsed", secs |-> el])

\* msg = message or f"等待条件 '{condition}' 超时 (超时时间: {actual_timeout} 秒)"
WaitForMessage(m, t) == MsgOr(CallerMsg(m), [text |-> "condition_timeout", secs |-> t])

\* msg = message or f"等待任何条件 {conditions} 超时 (超时时间: {actual_timeout} 秒)"
WaitForAnyMessage(m, t) == MsgOr(CallerMsg(m), [text |-> "any_timeout", secs |-> t])

\* check_any_condition: the first truthy result in index order; an exception
\* of one condition is logged and the next condition is checked.
RECURSIVE CheckAnyFrom(_, _)
CheckAnyFrom(fns, i) ==
    IF i > Len(fns) THEN "None"
    ELSE IF fns[i] \in Values /\ Truthy(fns[i]) THEN fns[i]
    ELSE CheckAnyFrom(fns, i + 1)

\* check_any_condition with the try around the whole loop: the first
\* exception ends the pass with None.
RECURSIVE CheckAnyStopOnError(_, _)
CheckAnyStopOnError(fns, i) ==
    IF i > Len(fns) THEN "None"
    ELSE IF fns[i] \in CondExceptions THEN "None"
    ELSE IF fns[i] \in TruthyValues THEN fns[i]
    ELSE CheckAnyStopOnError(fns, i + 1)

CheckAnyAborting(fns) == CheckAnyStopOnError(fns, 1)

CheckAny(fns) == CheckAnyFrom(fns, 1)

\* IsTimeoutError against Python's built-in TimeoutError, which the
\* framework's class of the same name does not derive from.
IsBuiltinTimeoutError(e) == FALSE

\* `except TimeoutError` of wait_for / wait_for_any: isinstance(e, TimeoutError)
\* for the framework's class.
IsTimeoutError(e) == e = "TimeoutError"

\* The exception class that leaves the entry point when class e leaves
\* _wait_with_backoff: wait_until lets it pass; wait_for and wait_for_any
\* re-raise a TimeoutError and wrap anything else in ConditionNotMetError.
Surface(ent, e) ==
    IF ent = "wait_until" THEN e
    ELSE IF IsTimeoutError(e) THEN e
    ELSE "ConditionNotMetError"

NoMsg == [text |-> "None", secs |-> 0]

\* Constructor: self._max_poll_frequency = min(max_poll_frequency, default_timeout / 2)
InitWait ==
    /\ ws_page \in BOOLEAN
    /\ default_timeout \in DefaultTimeouts
    /\ default_poll_frequency \in DefaultPolls
    /\ backoff_factor \in Factors
    /\ \E cap \in Caps : max_poll_frequency = Min(cap, default_timeout \div 2)
    /\ now = 0
    /\ wpc = "idle"
    /\ entry = "none"
    /\ actual_timeout = 0
    /\ actual_poll_frequency = 0
    /\ message = NoMsg
    /\ caller_message = "None"
    /\ nconds = 0
    /\ start_time = 0
    /\ end_time = 0
    /\ attempt_count = 0
    /\ current_poll_frequency = 0
    /\ wait_time = 0
    /\ result = "None"
    /\ wexc = "none"
    /\ error_msg = NoMsg
    /\ wsrc = "none"
    /\ cond_exc = "none"
    /\ cycle = <<>>
    /\ first_truthy = "none"
    /\ after_truthy = 0
    /\ any_truthy = FALSE
    /\ all_falsy = TRUE

\* An entry point raises before the polling loop starts.
RaiseBeforePolling(ent, m, e) ==
    /\ wpc' = "raised"
    /\ entry' = ent
    /\ caller_message' = m
    /\ wexc' = e
    /\ wsrc' = "precheck"
    /\ UNCHANGED <<wsFields, now, actual_timeout, actual_poll_frequency, message,
                   nconds, start_time, end_time, attempt_count,
                   current_poll_frequency, wait_time, result, error_msg,
                   cond_exc, cycle, first_truthy, after_truthy, any_truthy,
                   all_falsy>>

\* The head of _wait_with_backoff: defaults, start_time, end_time.
StartBackoff(ent, timeout, poll_frequency, msg, m, n) ==
    /\ wpc' = "poll"
    /\ entry' = ent
    /\ caller_message' = m
    /\ nconds' = n
    /\ actual_timeout' = IF timeout # NoneArg THEN timeout ELSE default_timeout
    /\ actual_poll_frequency' =
          IF poll_frequency # NoneArg THEN poll_frequency ELSE default_poll_frequency
    /\ message' = msg
    /\ start_time' = now
    /\ end_time' = now + actual_timeout'
    /\ current_poll_frequency' = actual_poll_frequency'
    /\ attempt_count' = 0
    /\ UNCHANGED <<wsFields, now, wait_time, result, wexc, error_msg, obsVars>>

TimeoutArgs == {NoneArg} \cup (1..MaxTimeout)
PollArgs == {NoneArg} \cup PollFrequencies

WaitUntil(timeout, poll_frequency, m) ==
    /\ wpc = "idle"
    /\ IF ~ws_page
       THEN RaiseBeforePolling("wait_until", m, "RuntimeError")
       ELSE StartBackoff("wait_until", timeout, poll_frequency, CallerMsg(m), m, 1)

\* kind: the condition is an ElementCondition with a registered handler
\* ("element"), a callable ("callable") or neither ("other").
WaitFor(kind, has_selector, timeout, poll_frequency, m) ==
    /\ wpc = "idle"
    /\ IF ~ws_page
       THEN RaiseBeforePolling("wait_for", m, "RuntimeError")
       ELSE IF kind = "element" /\ ~has_selector
       THEN RaiseBeforePolling("wait_for", m, "ValueError")
       ELSE IF kind = "other"
       THEN RaiseBeforePolling("wait_for", m, "TypeError")
       ELSE LET t == IF timeout # NoneArg THEN timeout ELSE default_timeout
            IN StartBackoff("wait_for", t, poll_frequency, WaitForMessage(m, t), m, 1)

WaitForAny(n, nargs, timeout, poll_frequency, m) ==
    /\ wpc = "idle"
    /\ IF ~ws_page
       THEN RaiseBeforePolling("wait_for_any", m, "RuntimeError")
       ELSE IF n # nargs
       THEN RaiseBeforePolling("wait_for_any", m, "ValueError")
       ELSE LET t == IF timeout # NoneArg THEN timeout ELSE default_timeout
                p == IF poll_frequency # NoneArg THEN poll_frequency
                     ELSE default_poll_frequency
            IN StartBackoff("wait_for_any", t, p, WaitForAnyMessage(m, t), m, n)

\* One pass of `while True:` up to the sleep. fns is what each condition
\* function does when called in this pass, d the time the call takes, g the
\* time between the two clock reads (elapsed, then current_time).
Poll(fns, d, g) ==
    /\ wpc = "poll"
    /\ LET o == IF entry = "wait_for_any" THEN CheckAny(fns) ELSE fns[1]
           el == (now + d) - start_time
           cur == now + d + g
           remaining == end_time - cur
           freq == PollFrequency(actual_poll_frequency, backoff_factor,
                                 attempt_count + 1, max_poll_frequency)
           ends == o \in CondExceptions \/ Truthy(o) \/ Expired(cur, end_time)
       IN /\ attempt_count' = attempt_count + 1
          /\ cycle' = IF ends THEN fns ELSE cycle
          /\ all_falsy' = (all_falsy /\ o \in FalsyValues)
          /\ any_truthy' = (any_truthy \/ \E i \in DOMAIN fns : fns[i] \in TruthyValues)
          /\ first_truthy' = IF first_truthy = "none" /\ o \in TruthyValues
                             THEN o ELSE first_truthy
          /\ after_truthy' = after_truthy + (IF first_truthy # "none" THEN 1 ELSE 0)
          /\ IF o \in CondExceptions
             THEN /\ now' = now + d
                  /\ wpc' = "raised"
                  /\ wexc' = Surface(entry, o)
                  /\ wsrc' = "condition"
                  /\ cond_exc' = o
                  /\ UNCHANGED <<current_poll_frequency, wait_time, result, error_msg>>
             ELSE IF Truthy(o)
             THEN /\ now' = now + d
                  /\ wpc' = "returned"
                  /\ result' = o
                  /\ UNCHANGED <<current_poll_frequency, wait_time, wexc, error_msg,
                                 wsrc, cond_exc>>
             ELSE IF Expired(cur, end_time)
             THEN /\ now' = cur
                  /\ wpc' = "raised"
                  /\ wexc' = Surface(entry, "TimeoutError")
                  /\ error_msg' = TimeoutMessage(message, el)
                  /\ wsrc' = "deadline"
                  /\ UNCHANGED <<current_poll_frequency, wait_time, result, cond_exc>>
             ELSE /\ now' = cur
                  /\ current_poll_frequency' = freq
                  /\ wait_time' = WaitTime(freq, remaining)
                  /\ wpc' = "sleeping"
                  /\ UNCHANGED <<result, wexc, error_msg, wsrc, cond_exc>>
    /\ UNCHANGED <<wsFields, callVars>>

\* time.sleep(wait_time)
Sleep ==
    /\ wpc = "sleeping"
    /\ now' = now + wait_time
    /\ after_truthy' = after_truthy + (IF first_truthy # "none" THEN 1 ELSE 0)
    /\ wpc' = "poll"
    /\ UNCHANGED <<wsFields, callVars, loopVars, wsrc, cond_exc, cycle,
                   first_truthy, any_truthy, all_falsy>>

\* ---------------------------------------------------------------- WebDriver
\* The handles in the order __enter__ acquires them; __exit__ closes them in
\* the opposite order.
Resources == {"playwright", "browser", "context", "page"}
StartupOrder == <<"playwright", "browser", "context", "page">>
CloseOrder == <<"page", "context", "browser", "playwright">>
\* Where __enter__ fails: at the start of one of the handles, after the page
\* exists (set_page, _setup_page_listeners), or nowhere.
FailPoints == Resources \cup {"listeners", "nowhere"}
NavOps == {"navigate", "refresh", "go_back", "go_forward"}

VARIABLES
    \* WebDriver fields
    handles,                \* handles[r] is TRUE when self._<r> is not None
    is_closed,
    \* observations of the latest operation
    dop,                    \* "none", "enter", "exit" or a member of NavOps
    dexc,                   \* the exception class it raised, "none" if none
    unclosed,               \* acquired handles on which close was never attempted
    fail_point,             \* where the startup of the latest __enter__ failed
    close_failed,           \* the handles whose close()/stop() raised
    body_raised,            \* the latest __exit__ was given an exception
    was_started,            \* page held and not closed when a navigation was called
    nav_failed              \* the navigation call of Playwright itself raised

driverVars == <<handles, is_closed, dop, dexc, unclosed, fail_point, close_failed,
                body_raised, was_started, nav_failed>>

NoHandles == [r \in Resources |-> FALSE]

\* CloseOne with `self._<r> = None` inside the try, after close(): a handle
\* whose close raises stays set.
CloseOneKeepOnFailure(c, r, fails) ==
    IF c.handles[r]
    THEN [handles |-> [c.handles EXCEPT ![r] = (r \in fails)],
          attempted |-> c.attempted \cup {r},
          original_exception |-> c.original_exception \/ r \in fails]
    ELSE c

\* One `if self._<r>: try: close() except Exception: ... ; self._<r> = None`
\* block of __exit__.  c = [handles, attempted, original_exception].
CloseOne(c, r, fails) ==
    IF c.handles[r]
    THEN [handles |-> [c.handles EXCEPT ![r] = FALSE],
          attempted |-> c.attempted \cup {r},
          original_exception |-> c.original_exception \/ r \in fails]
    ELSE c

RECURSIVE CloseFrom(_, _, _)
CloseFrom(c, i, fails) ==
    IF i > Len(CloseOrder) THEN c
    ELSE CloseFrom(CloseOne(c, CloseOrder[i], fails), i + 1, fails)

\* ExitRaises without the `if exc_type is None` test.
ExitRaisesAlways(original_exception, exc_given) ==
    IF original_exception THEN "DriverError" ELSE "none"

\* What the `except Exception` clause at the end of __exit__ lets out when
\* the DriverError of a failed close reaches it.
ExitRaises(original_exception, exc_given) ==
    IF original_exception /\ ~exc_given THEN "DriverError" ELSE "none"

\* __exit__ that leaves the cleanup out when it is given an exception.
ExitResultSkipOnError(h, closed, exc_given, fails) ==
    IF closed \/ exc_given
    THEN [handles |-> h, is_closed |-> closed, attempted |-> {}, raised |-> "none",
          failed |-> {}]
    ELSE LET c == CloseFrom([handles |-> h, attempted |-> {},
                             original_exception |-> FALSE], 1, fails)
         IN [handles |-> c.handles, is_closed |-> TRUE, attempted |-> c.attempted,
             raised |-> ExitRaises(c.original_exception, exc_given),
             failed |-> c.attempted \cap fails]

\* WebDriver.__exit__ on fields h, closed; exc_given: exc_type is not None;
\* fails: the handles whose close raises.
ExitResult(h, closed, exc_given, fails) ==
    IF closed
    THEN [handles |-> h, is_closed |-> closed, attempted |-> {}, raised |-> "none",
          failed |-> {}]
    ELSE LET c == CloseFrom([handles |-> h, attempted |-> {},
                             original_exception |-> FALSE], 1, fails)
         IN [handles |-> c.handles, is_closed |-> TRUE, attempted |-> c.attempted,
             raised |-> ExitRaises(c.original_exception, exc_given),
             failed |-> c.attempted \cap fails]

\* The handles __enter__ holds when its startup fails at fp.
RECURSIVE AcquiredFrom(_, _)
AcquiredFrom(fp, i) ==
    IF i > Len(StartupOrder) \/ StartupOrder[i] = fp THEN {}
    ELSE {StartupOrder[i]} \cup AcquiredFrom(fp, i + 1)

Acquired(fp) == AcquiredFrom(fp, 1)

\* convert_exceptions(target_exception, source_exceptions): the class that
\* leaves the wrapper when the wrapped function raises e ("none": it returns).
\* sources = [given |-> FALSE, ..] is source_exceptions=None.
ConvertExceptions(target_exception, sources, e) ==
    IF e = "none" THEN "none"
    ELSE IF sources.given /\ e \notin sources.classes THEN e
    ELSE target_exception

\* _ensure_page
EnsurePage(h, closed) ==
    IF closed \/ ~h["page"] THEN "DriverNotStartedError" ELSE "none"

\* The body of navigate / refresh / go_back / go_forward.
NavigationBody(h, closed, fails) ==
    IF EnsurePage(h, closed) # "none" THEN EnsurePage(h, closed)
    ELSE IF fails THEN "PlaywrightError"
    ELSE "none"

\* @convert_exceptions(NavigationError)
NavigationRaises(h, closed, fails) ==
    ConvertExceptions("NavigationError", [given |-> FALSE, classes |-> {}],
                      NavigationBody(h, closed, fails))

InitDriver ==
    /\ handles = NoHandles
    /\ is_closed = FALSE
    /\ dop = "none"
    /\ dexc = "none"
    /\ unclosed = {}
    /\ fail_point = "nowhere"
    /\ close_failed = {}
    /\ body_raised = FALSE
    /\ was_started = FALSE
    /\ nav_failed = FALSE

\* WebDriver.__enter__, with the call of __exit__ it makes when startup fails.
Enter(fp, fails) ==
    /\ dop' = "enter"
    /\ body_raised' = FALSE
    /\ UNCHANGED <<was_started, nav_failed>>
    /\ IF is_closed
       THEN /\ dexc' = "DriverError"
            /\ fail_point' = "nowhere"
            /\ close_failed' = {}
            /\ UNCHANGED <<handles, is_closed, unclosed>>
       ELSE IF handles["playwright"]
       THEN /\ dexc' = "none"
            /\ fail_point' = "nowhere"
            /\ close_failed' = {}
            /\ UNCHANGED <<handles, is_closed, unclosed>>
       ELSE IF fp = "nowhere"
       THEN /\ handles' = [r \in Resources |-> TRUE]
            /\ is_closed' = FALSE
            /\ unclosed' = Resources
            /\ dexc' = "none"
            /\ fail_point' = fp
            /\ close_failed' = {}
       ELSE LET held == [r \in Resources |-> r \in Acquired(fp)]
                x == ExitResult(held, is_closed, TRUE, fails)
            IN /\ handles' = x.handles
               /\ is_closed' = x.is_closed
               /\ unclosed' = Acquired(fp) \ x.attempted
               /\ close_failed' = x.failed
               /\ fail_point' = fp
               /\ dexc' = IF x.raised # "none" THEN x.raised ELSE "DriverInitError"

\* WebDriver.__exit__ at the end of a with block.
Exit(exc_given, fails) ==
    /\ dop' = "exit"
    /\ body_raised' = exc_given
    /\ LET x == ExitResult(handles, is_closed, exc_given, fails)
       IN /\ handles' = x.handles
          /\ is_closed' = x.is_closed
          /\ unclosed' = unclosed \ x.attempted
          /\ close_failed' = x.failed
          /\ dexc' = x.raised
    /\ UNCHANGED <<fail_point, was_started, nav_failed>>

\* navigate, refresh, go_back, go_forward.
Navigation(op, fails) ==
    /\ dop' = op
    /\ was_started' = (handles["page"] /\ ~is_closed)
    /\ nav_failed' = (was_started' /\ fails)
    /\ dexc' = NavigationRaises(handles, is_closed, fails)
    /\ UNCHANGED <<handles, is_closed, unclosed, fail_point, close_failed, body_raised>>

\* ------------------------------------------------- configuration manager
\* A configuration dict is a tree, modelled as a function from key paths to
\* what the dict holds there: "dict" for a nested dict, any other string for
\* a non-dict value (deep_merge stores source's value for a list as it does
\* for a scalar).  A path is in the domain only when each of its proper
\* prefixes holds "dict".
Keys == {"a", "b"}
Scalars == {"v1", "v2"}
Paths == {<<k>> : k \in Keys} \cup {<<k, j>> : k \in Keys, j \in Keys}
\* The paths of the files and environment data that load_config reads.
LayerPaths == {<<"a">>, <<"a", "b">>}

EmptyDict == [p \in {} |-> "dict"]

Front(p) == SubSeq(p, 1, Len(p) - 1)

WellFormed(t) ==
    \A p \in DOMAIN t : Len(p) > 1 => (Front(p) \in DOMAIN t /\ t[Front(p)] = "dict")

TreesOver(P) ==
    {t \in UNION {[D -> Scalars \cup {"dict"}] : D \in SUBSET P} : WellFormed(t)}

ConfigTrees == TreesOver(Paths)
LayerTrees == TreesOver(LayerPaths)

\* source.items() / destination.keys(): the keys of the top level.
TopKeys(t) == {p[1] : p \in DOMAIN t}

\* d[k] as a dict of its own, for a key k that holds a nested dict.
Sub(t, k) ==
    [q \in {Tail(p) : p \in {r \in DOMAIN t : Len(r) > 1 /\ r[1] = k}} |-> t[<<k>> \o q]]

\* The item of key k in d: its value with everything below it.
Under(t, k) == [p \in {r \in DOMAIN t : r[1] = k} |-> t[p]]

\* A dict made of items with distinct keys.
Join(items) ==
    [p \in UNION {DOMAIN f : f \in items} |-> (CHOOSE f \in items : p \in DOMAIN f)[p]]

\* deep_merge(source, destination).  It works on a deepcopy of destination
\* and returns it.  For a key whose value in source is a dict, node is
\* destination.setdefault(key, {}); the recursive call deep_merge(value, node)
\* copies node again and returns the merged copy, which the caller does not
\* store, so node stays as it was.
RECURSIVE DeepMerge(_, _)
DeepMerge(source, destination) ==
    LET Item(key) ==
            IF key \notin TopKeys(source) THEN Under(destination, key)
            ELSE IF source[<<key>>] = "dict"
            THEN LET node == IF key \in TopKeys(destination)
                             THEN Under(destination, key)
                             ELSE [p \in {<<key>>} |-> "dict"]
                 IN  IF node[<<key>>] = "dict"
                     THEN LET dropped == DeepMerge(Sub(source, key), Sub(node, key))
                          IN  node
                     ELSE Under(source, key)
            ELSE Under(source, key)
    IN  Join({Item(key) : key \in TopKeys(source) \cup TopKeys(destination)})

ConfigLevels == {"DEFAULT", "ENVIRONMENT", "TEST", "LOCAL", "ENV_VAR"}
CONFIG_PRIORITY_ORDER == <<"ENV_VAR", "LOCAL", "TEST", "ENVIRONMENT", "DEFAULT">>
Reversed(s) == [i \in 1..Len(s) |-> s[Len(s) + 1 - i]]
CONFIG_MERGE_ORDER == Reversed(CONFIG_PRIORITY_ORDER)

VARIABLES
    config_layers,      \* self._config_layers: level -> dict
    merged_config,      \* self._merged_config
    initialized,        \* self._initialized
    dm_source,          \* deep_merge: the source argument
    dm_destination,     \* deep_merge: the destination argument
    dm_result,          \* deep_merge: the returned dict
    dm_done             \* deep_merge has returned

configVars == <<config_layers, merged_config, initialized>>
mergeVars == <<dm_source, dm_destination, dm_result, dm_done>>

\* _load_file: a file that is missing, has no loader, is empty or fails to
\* load (config_data empty here) leaves the layer as it is.
LoadFile(layer, config_data) ==
    IF DOMAIN config_data # {} THEN DeepMerge(layer, config_data) ELSE layer

\* _merge_configs: the loop over self._load_order from its i-th level on.
RECURSIVE MergeFrom(_, _, _)
MergeFrom(i, merged, layers) ==
    IF i > Len(CONFIG_MERGE_ORDER) THEN merged
    ELSE LET layer_data == layers[CONFIG_MERGE_ORDER[i]]
         IN  MergeFrom(i + 1,
                       IF DOMAIN layer_data # {} THEN DeepMerge(merged, layer_data)
                                                 ELSE merged,
                       layers)

MergeConfigs(layers) == MergeFrom(1, EmptyDict, layers)

InitConfig ==
    /\ config_layers = [level \in ConfigLevels |-> EmptyDict]
    /\ merged_config = EmptyDict
    /\ initialized = FALSE

\* deep_merge called on two dicts.
IdleMerge ==
    /\ dm_source = EmptyDict
    /\ dm_destination = EmptyDict
    /\ dm_result = EmptyDict
    /\ dm_done = FALSE

InitDeepMerge ==
    /\ dm_source \in ConfigTrees
    /\ dm_destination \in ConfigTrees
    /\ dm_result = EmptyDict
    /\ dm_done = FALSE

\* ------------------------------------------------------------------ retry
MaxAttempts == 3        \* largest max_attempts of a retry decorator

\* What the wrapped function can do in one invocation: return a result or
\* raise.  Mro gives the classes each raised exception is an instance of.
Results == {"r1", "r2"}
Raised == {"ValueError", "KeyError", "KeyboardInterrupt"}
Mro == [e \in Raised |->
           CASE e = "ValueError" -> {"ValueError", "Exception", "BaseException"}
             [] e = "KeyError" -> {"KeyError", "LookupError", "Exception", "BaseException"}
             [] e = "KeyboardInterrupt" -> {"KeyboardInterrupt", "BaseException"}]
IsInstance(e, class) == class \in Mro[e]

\* The exceptions argument: None, or a list of classes.
NoExceptions == [given |-> FALSE, classes |-> {}]
ExceptionLists ==
    {NoExceptions} \cup {[given |-> TRUE, classes |-> cs] : cs \in SUBSET {"ValueError", "LookupError"}}

RetryIntervals == {1}
BackoffFactors == {2}

VARIABLES
    max_attempts,       \* decorator argument
    exceptions,         \* decorator argument
    retry_backoff,      \* decorator argument backoff_factor
    rpc,                \* "idle", "calling", "returned" or "raised"
    attempt,            \* wrapper: attempt
    current_interval,   \* wrapper: current_interval
    slept,              \* total time.sleep() so far in this call
    invocations,        \* what each func() invocation of this call did, in order
    retry_result,       \* what the wrapper returned
    retry_exc           \* what the wrapper raised

retryVars == <<max_attempts, exceptions, retry_backoff, rpc, attempt, current_interval,
               slept, invocations, retry_result, retry_exc>>

\* except Exception
Caught(e) == IsInstance(e, "Exception")

\* any(isinstance(e, exc) for exc in exceptions), or exceptions is None
Matches(excs, e) == ~excs.given \/ \E class \in excs.classes : IsInstance(e, class)

\* attempt >= max_attempts
ExhaustedLate(att, n) == att > n
Exhausted(att, n) == att >= n

InitRetry ==
    /\ max_attempts = 1
    /\ exceptions = NoExceptions
    /\ retry_backoff = 2
    /\ rpc = "idle"
    /\ attempt = 0
    /\ current_interval = 0
    /\ slept = 0
    /\ invocations = <<>>
    /\ retry_result = "None"
    /\ retry_exc = "none"

\* ------------------------------------------------------- CI run_and_notify
\* The environment variables main and its helpers read, each as the boolean
\* the code derives from it.
EnvFlags == {"SKIP_TEST_EXECUTION", "SKIP_REPORT_GENERATION", "EMAIL_ENABLED",
             "UPLOAD_REPORT", "ECS_HOST", "CI"}
Environments == [EnvFlags -> BOOLEAN]

\* Exit codes of pytest as run_tests() returns them.
PytestExitCodes == {0, 1, 2}

\* send_report_email's parameters, and the arguments _send_notification
\* passes to it.
SendReportEmailParams == <<"summary">>
SendReportEmailArgs == <<"summary", "upload_successful">>

VARIABLES
    ppc,                            \* where main is
    environ,                        \* os.environ
    test_run_successful,
    report_generation_successful,
    deployment_successful,
    steps,                          \* the pipeline steps entered so far, in order
    exit_code,                      \* <<what run_tests() returned>>, <<>> before
    report_success,                 \* <<what generate_allure_report() returned>>
    deployed,                       \* what the deployment step achieved
    pexc,                           \* exception that left main
    exit_status                     \* <<exit status of the process>>, <<>> before

pipelineVars == <<ppc, environ, test_run_successful, report_generation_successful,
                  deployment_successful, steps, exit_code, report_success, deployed,
                  pexc, exit_status>>

\* if not skip_test_execution or not skip_report_generation
NeedsPrepare(env) == ~env["SKIP_TEST_EXECUTION"] \/ ~env["SKIP_REPORT_GENERATION"]

\* Where main goes after _generate_report() returned.
AfterReportAbort(ok) == IF ok THEN "deploy" ELSE "exit"
AfterReport(ok) == IF ok THEN "deploy" ELSE "notify"

\* _handle_report_deployment
HandleReportDeployment(env, upload_result, fix_result) ==
    IF env["UPLOAD_REPORT"]
    THEN IF env["ECS_HOST"] THEN upload_result ELSE FALSE
    ELSE IF env["CI"] THEN fix_result ELSE TRUE

\* Calling a function with more positional arguments than it has parameters
\* raises TypeError.
CallRaises(params, args) == Len(args) > Len(params)

\* The exit status main ends with.
ExitStatus(t, r, d) == IF ~t \/ ~r \/ ~d THEN 1 ELSE 0

InitPipeline ==
    /\ ppc = "idle"
    /\ environ = [f \in EnvFlags |-> FALSE]
    /\ test_run_successful = TRUE
    /\ report_generation_successful = FALSE
    /\ deployment_successful = FALSE
    /\ steps = <<>>
    /\ exit_code = <<>>
    /\ report_success = <<>>
    /\ deployed = "none"
    /\ pexc = "none"
    /\ exit_status = <<>>

\* ----------------------------------------- PaymentService.create_unified_order
\* The JSON body of a response, field by field; "None" is a field that is
\* absent or null.  result_code "OTHER" is a string outside the model's
\* pattern, pay_url "not a url" a string HttpUrl rejects.
ReturnCodes == {"None", "SUCCESS", "FAIL"}
ResultCodes == {"None", "SUCCESS", "FAIL", "FAILED", "OTHER"}
PayUrls == {"None", "https://pay", "not a url"}
ErrCodes == {"None", "E1"}
ErrMsgs == {"None", "", "message"}
ResponseBodies ==
    [return_code : ReturnCodes, result_code : ResultCodes, pay_url : PayUrls,
     err_code : ErrCodes, err_msg : ErrMsgs]
NoBody ==
    [return_code |-> "None", result_code |-> "None", pay_url |-> "None",
     err_code |-> "None", err_msg |-> "None"]

\* How step 1 (parameters and signature) can end: done, or with an exception
\* of one of these classes.  _prepare_request_data and calculate_md5_sign
\* raise ValueError and RuntimeError; {..., **specific_params} raises
\* TypeError for order_params that is not a mapping.
PrepareOutcomes == {"ok", "ValueError", "RuntimeError", "TypeError"}
\* How client.post and response.json() can end: a JSON body, or an exception.
SendOutcomes == {"json", "httpx.RequestError", "json.JSONDecodeError", "KeyError"}

VARIABLES
    cpc,                \* "idle", "prepared", "returned" or "raised"
    failure,            \* what went wrong in this call ("none": nothing)
    response_json,      \* the body the server answered with
    validated_response, \* the returned CreateOrderResponse
    pay_exc             \* the exception create_unified_order raised

paymentVars == <<cpc, failure, response_json, validated_response, pay_exc>>

\* Field validation of CreateOrderResponse: return_code is required,
\* result_code matches ^(SUCCESS|FAIL|FAILED)$, pay_url is an HttpUrl.
FieldsValid(r) ==
    /\ r.return_code # "None"
    /\ r.result_code \in {"None", "SUCCESS", "FAIL", "FAILED"}
    /\ r.pay_url \in {"None", "https://pay"}

\* check_response_logic: TRUE when it returns self, FALSE when it raises.
CheckResponseLogicLax(r) == TRUE
CheckResponseLogic(r) ==
    IF r.return_code = "SUCCESS"
    THEN IF r.result_code = "None" THEN FALSE
         ELSE IF r.result_code = "SUCCESS" THEN r.pay_url # "None"
         ELSE IF r.result_code \in {"FAIL", "FAILED"}
              THEN ~(r.err_code = "None" \/ r.err_msg = "None")
              ELSE TRUE
    ELSE TRUE

\* CreateOrderResponse.model_validate(response_json) succeeds.
ModelValidate(r) == FieldsValid(r) /\ CheckResponseLogic(r)

\* except (ValueError, RuntimeError) around step 1
PrepareCaught(e) == e \in {"ValueError", "RuntimeError"}

InitPayment ==
    /\ cpc = "idle"
    /\ failure = "none"
    /\ response_json = NoBody
    /\ validated_response = NoBody
    /\ pay_exc = "none"

\* ------------------------------------------ OmpLoginPage.login_with_captcha
MaxCaptchaAttempts == 3     \* largest configured captcha max_retry

\* How _is_login_successful and get_error_message judge a submitted form:
\* success, an error message that contains the word for captcha, any other
\* (or no) error message, or a TimeoutError.
Verdicts == {"success", "captcha error", "other error", "timeout"}

VARIABLES
    max_captcha_attempts,   \* self._max_captcha_attempts
    lpc,                    \* "idle", "loop", "returned" or "raised"
    captcha_attempts,       \* the loop's counter
    submissions,            \* calls of click_login_button in this login
    attempt_log,            \* how each pass of the loop ended, in order
    login_result,           \* what login_with_captcha returned
    login_exc               \* what login_with_captcha raised

loginVars == <<max_captcha_attempts, lpc, captcha_attempts, submissions, attempt_log,
               login_result, login_exc>>

\* while captcha_attempts < self._max_captcha_attempts
MayAttemptOneMore(attempts, max) == attempts <= max
MayAttempt(attempts, max) == attempts < max

\* if captcha_attempts >= self._max_captcha_attempts
LastAttempt(attempts, max) == attempts >= max

InitLogin ==
    /\ max_captcha_attempts = 0
    /\ lpc = "idle"
    /\ captcha_attempts = 0
    /\ submissions = 0
    /\ attempt_log = <<>>
    /\ login_result = "None"
    /\ login_exc = "none"

\* --------------------------------------- PlaywrightConditionHandlerRegistry
MaxHandlers == 11           \* longest list of registered handlers explored

\* class ElementCondition(Enum)
ElementCondition ==
    {"PRESENT", "VISIBLE", "CLICKABLE", "INVISIBLE", "DISABLED", "ENABLED",
     "SELECTED", "TEXT_CONTAINS", "TEXT_EQUALS", "VALUE_CONTAINS", "VALUE_EQUALS",
     "ATTRIBUTE_CONTAINS", "ATTRIBUTE_EQUALS", "STALENESS"}

\* The list `handlers` of _register_all, in its order.
PlaywrightHandlers ==
    <<"PlaywrightPresentHandler", "PlaywrightVisibleHandler",
      "PlaywrightInvisibleHandler", "PlaywrightClickableHandler",
      "PlaywrightEnabledHandler", "PlaywrightDisabledHandler",
      "PlaywrightSelectedHandler", "PlaywrightStalenessHandler",
      "PlaywrightTextHandler", "PlaywrightAttributeHandler">>

\* What register_handler may be handed: an instance of one of the handler
\* classes, or an object that is not a BaseConditionHandler.
Registrable == {PlaywrightHandlers[i] : i \in DOMAIN PlaywrightHandlers} \cup {"object"}

\* handler.matches(condition), class by class.
HandlerMatches(handler, condition) ==
    CASE handler = "PlaywrightPresentHandler"   -> condition = "PRESENT"
      [] handler = "PlaywrightVisibleHandler"   -> condition = "VISIBLE"
      [] handler = "PlaywrightInvisibleHandler" -> condition = "INVISIBLE"
      [] handler = "PlaywrightClickableHandler" -> condition = "CLICKABLE"
      [] handler = "PlaywrightEnabledHandler"   -> condition = "ENABLED"
      [] handler = "PlaywrightDisabledHandler"  -> condition = "DISABLED"
      [] handler = "PlaywrightSelectedHandler"  -> condition = "SELECTED"
      [] handler = "PlaywrightStalenessHandler" -> condition = "STALENESS"
      [] handler = "PlaywrightTextHandler"
            -> condition \in {"TEXT_CONTAINS", "TEXT_EQUALS"}
      [] handler = "PlaywrightAttributeHandler"
            -> condition \in {"ATTRIBUTE_CONTAINS", "ATTRIBUTE_EQUALS"}
      [] OTHER -> FALSE

VARIABLES
    cpos,               \* _register_all: handlers of its list registered so far
    handlers,           \* self.handlers
    handler_map,        \* self._handler_map, a function on the keys it holds
    register_exc,       \* what the last register_handler raised
    gc_condition,       \* the condition of the last _get_condition_function, if any
    gc_handler,         \* what get_handler returned to it
    gc_outcome          \* "none", "condition function" or the exception raised

registryVars == <<cpos, handlers, handler_map, register_exc, gc_condition,
                  gc_handler, gc_outcome>>

\* The body of register_handler after the isinstance check: the map with every
\* condition the handler matches pointing at it.
MapAfterRegister(map, handler) ==
    [condition \in (DOMAIN map) \cup {c \in ElementCondition : HandlerMatches(handler, c)} |->
        IF HandlerMatches(handler, condition) THEN handler ELSE map[condition]]

\* self._handler_map.get(condition)
GetHandler(map, condition) ==
    IF condition \in DOMAIN map THEN map[condition] ELSE "None"

\* BaseConditionHandlerRegistry.__init__
InitRegistry ==
    /\ cpos = 0
    /\ handlers = <<>>
    /\ handler_map = <<>>
    /\ register_exc = "none"
    /\ gc_condition = <<>>
    /\ gc_handler = "None"
    /\ gc_outcome = "none"

\* ------------------------------------------------------------ the system
vars == <<waitVars, driverVars, configVars, mergeVars, retryVars, pipelineVars, paymentVars, loginVars, registryVars>>

\* Everything outside waitVars.
othersWait == <<driverVars, configVars, mergeVars, retryVars,
                pipelineVars, paymentVars, loginVars, registryVars>>

\* Everything outside driverVars.
othersDriver == <<waitVars, configVars, mergeVars, retryVars,
                  pipelineVars, paymentVars, loginVars, registryVars>>

\* Everything outside configVars.
othersConfig == <<waitVars, driverVars, mergeVars, retryVars,
                  pipelineVars, paymentVars, loginVars, registryVars>>

\* Everything outside mergeVars.
othersMerge == <<waitVars, driverVars, configVars, retryVars,
                 pipelineVars, paymentVars, loginVars, registryVars>>

\* Everything outside retryVars.
othersRetry == <<waitVars, driverVars, configVars, mergeVars,
                 pipelineVars, paymentVars, loginVars, registryVars>>

\* Everything outside pipelineVars.
othersPipeline == <<waitVars, driverVars, configVars, mergeVars,
                    retryVars, paymentVars, loginVars, registryVars>>

\* Everything outside paymentVars.
othersPayment == <<waitVars, driverVars, configVars, mergeVars,
                   retryVars, pipelineVars, loginVars, registryVars>>

\* Everything outside loginVars.
othersLogin == <<waitVars, driverVars, configVars, mergeVars,
                 retryVars, pipelineVars, paymentVars, registryVars>>

\* Everything outside registryVars.
othersRegistry == <<waitVars, driverVars, configVars, mergeVars,
                    retryVars, pipelineVars, paymentVars, loginVars>>

\* A wait strategy with the default backoff factor, for the runs that are
\* about another component.
IdleWait == InitWait /\ ws_page /\ backoff_factor = <<3, 2>> /\ max_poll_frequency = 1

Init ==
    /\ InitWait
    /\ InitDriver
    /\ InitConfig
    /\ IdleMerge
    /\ InitRetry
    /\ InitPipeline
    /\ InitPayment
    /\ InitLogin
    /\ InitRegistry

\* The same system with the wait strategy left at its defaults.
InitQuiet ==
    /\ IdleWait
    /\ InitDriver
    /\ InitConfig
    /\ IdleMerge
    /\ InitRetry
    /\ InitPipeline
    /\ InitPayment
    /\ InitLogin
    /\ InitRegistry

\* deep_merge applied to any two dicts.
InitMerge ==
    /\ IdleWait
    /\ InitDriver
    /\ InitConfig
    /\ InitDeepMerge
    /\ InitRetry
    /\ InitPipeline
    /\ InitPayment
    /\ InitLogin
    /\ InitRegistry

WaitUntilCall ==
    /\ \E t \in TimeoutArgs, p \in PollArgs, m \in CallerMessages : WaitUntil(t, p, m)
    /\ UNCHANGED othersWait

WaitForCall ==
    /\ \E kind \in {"element", "callable", "other"}, sel \in BOOLEAN,
          t \in TimeoutArgs, p \in PollArgs, m \in CallerMessages :
             WaitFor(kind, sel, t, p, m)
    /\ UNCHANGED othersWait

WaitForAnyCall ==
    /\ \E n \in 0..MaxConds, nargs \in 0..MaxConds,
          t \in TimeoutArgs, p \in PollArgs, m \in CallerMessages :
             WaitForAny(n, nargs, t, p, m)
    /\ UNCHANGED othersWait

PollStep ==
    /\ \E fns \in [1..nconds -> Outcomes], d \in CallTicks, g \in ReadGaps :
          Poll(fns, d, g)
    /\ UNCHANGED othersWait

SleepStep ==
    /\ Sleep
    /\ UNCHANGED othersWait

NextWait ==
    \/ WaitUntilCall
    \/ WaitForCall
    \/ WaitForAnyCall
    \/ PollStep
    \/ SleepStep

SpecWait == Init /\ [][NextWait]_vars

\* The loop of _wait_with_backoff runs on its caller's thread and keeps
\* running: a pass or a sleep that can be taken is taken.
FairSpecWait == SpecWait /\ WF_vars(PollStep) /\ WF_vars(SleepStep)

\* Every wait that entered the polling loop ends, by a return or a raise.
WaitTerminates == (wpc \in {"poll", "sleeping"}) ~> (wpc \in {"returned", "raised"})

EnterCall ==
    /\ \E fp \in FailPoints, fails \in SUBSET Resources : Enter(fp, fails)
    /\ UNCHANGED othersDriver

ExitCall ==
    /\ \E exc_given \in BOOLEAN, fails \in SUBSET Resources : Exit(exc_given, fails)
    /\ UNCHANGED othersDriver

NavigationCall ==
    /\ \E op \in NavOps, fails \in BOOLEAN : Navigation(op, fails)
    /\ UNCHANGED othersDriver

NextDriver ==
    \/ EnterCall
    \/ ExitCall
    \/ NavigationCall

SpecDriver == Init /\ [][NextDriver]_vars

\* load_config, as get_config and the first get/get_all call it: once, on a
\* manager that is not initialized.  raise_on_missing_env is False.
LoadConfig ==
    /\ ~initialized
    /\ \E default_data \in LayerTrees, env_file \in LayerTrees,
          local_file \in LayerTrees, env_data \in LayerTrees :
          LET layers == [config_layers EXCEPT
                           !["DEFAULT"] = LoadFile(@, default_data),
                           !["ENVIRONMENT"] = LoadFile(@, env_file),
                           !["LOCAL"] = LoadFile(@, local_file),
                           !["ENV_VAR"] = IF DOMAIN env_data # {} THEN env_data ELSE @]
          IN  /\ config_layers' = layers
              /\ merged_config' = MergeConfigs(layers)
    /\ initialized' = TRUE
    /\ UNCHANGED othersConfig

\* clear_level(level)
ClearLevel ==
    /\ \E level \in ConfigLevels :
          LET layers == [config_layers EXCEPT ![level] = EmptyDict]
          IN  /\ config_layers' = layers
              /\ merged_config' = MergeConfigs(layers)
    /\ UNCHANGED initialized
    /\ UNCHANGED othersConfig

NextConfig ==
    \/ LoadConfig
    \/ ClearLevel

SpecConfig == InitQuiet /\ [][NextConfig]_vars

\* deep_merge(dm_source, dm_destination) returns.
DeepMergeReturns ==
    /\ ~dm_done
    /\ dm_result' = DeepMerge(dm_source, dm_destination)
    /\ dm_done' = TRUE
    /\ UNCHANGED <<dm_source, dm_destination>>
    /\ UNCHANGED othersMerge

NextMerge ==
    \/ DeepMergeReturns

SpecMerge == InitMerge /\ [][NextMerge]_vars

\* A function decorated with retry(n, interval, factor, excs) is called: the
\* wrapper runs up to its loop.
RetryWrapperCalled ==
    /\ rpc # "calling"
    /\ \E n \in 1..MaxAttempts, interval \in RetryIntervals, factor \in BackoffFactors,
          excs \in ExceptionLists :
          /\ max_attempts' = n
          /\ exceptions' = excs
          /\ retry_backoff' = factor
          /\ current_interval' = interval
    /\ rpc' = "calling"
    /\ attempt' = 1
    /\ slept' = 0
    /\ invocations' = <<>>
    /\ retry_result' = "None"
    /\ retry_exc' = "none"
    /\ UNCHANGED othersRetry

\* One pass of the loop: func(*args, **kwargs) does `outcome`.
RetryPass ==
    /\ rpc = "calling"
    /\ \E outcome \in Results \cup Raised :
          /\ invocations' = Append(invocations, outcome)
          /\ IF outcome \in Results
             THEN /\ rpc' = "returned"
                  /\ retry_result' = outcome
                  /\ UNCHANGED <<attempt, current_interval, slept, retry_exc>>
             ELSE IF ~Caught(outcome) \/ ~Matches(exceptions, outcome)
                                     \/ Exhausted(attempt, max_attempts)
             THEN /\ rpc' = "raised"
                  /\ retry_exc' = outcome
                  /\ UNCHANGED <<attempt, current_interval, slept, retry_result>>
             ELSE /\ slept' = slept + current_interval
                  /\ current_interval' = current_interval * retry_backoff
                  /\ attempt' = attempt + 1
                  /\ UNCHANGED <<rpc, retry_result, retry_exc>>
    /\ UNCHANGED <<max_attempts, exceptions, retry_backoff>>
    /\ UNCHANGED othersRetry

NextRetry ==
    \/ RetryWrapperCalled
    \/ RetryPass

SpecRetry == InitQuiet /\ [][NextRetry]_vars

\* main() starts in a process with environment env.
MainStarts ==
    /\ ppc = "idle"
    /\ environ' \in Environments
    /\ test_run_successful' = TRUE
    /\ report_generation_successful' = FALSE
    /\ deployment_successful' = FALSE
    /\ ppc' = "prepare"
    /\ UNCHANGED <<steps, exit_code, report_success, deployed, pexc, exit_status>>
    /\ UNCHANGED othersPipeline

\* Step 1: _execute_pre_run_steps
Prepare ==
    /\ ppc = "prepare"
    /\ steps' = IF NeedsPrepare(environ) THEN Append(steps, "prepare") ELSE steps
    /\ ppc' = "tests"
    /\ UNCHANGED <<environ, test_run_successful, report_generation_successful,
                   deployment_successful, exit_code, report_success, deployed,
                   pexc, exit_status>>
    /\ UNCHANGED othersPipeline

\* Step 2: _execute_tests, where run_tests() returns code
ExecuteTests ==
    /\ ppc = "tests"
    /\ IF ~environ["SKIP_TEST_EXECUTION"]
       THEN /\ steps' = Append(steps, "tests")
            /\ \E code \in PytestExitCodes :
                  /\ exit_code' = <<code>>
                  /\ test_run_successful' = (code = 0)
       ELSE /\ test_run_successful' = TRUE
            /\ UNCHANGED <<steps, exit_code>>
    /\ ppc' = "report"
    /\ UNCHANGED <<environ, report_generation_successful, deployment_successful,
                   report_success, deployed, pexc, exit_status>>
    /\ UNCHANGED othersPipeline

\* Step 3: _generate_report, where generate_allure_report() returns ok
GenerateReport ==
    /\ ppc = "report"
    /\ IF ~environ["SKIP_REPORT_GENERATION"]
       THEN /\ steps' = Append(steps, "report")
            /\ \E ok \in BOOLEAN :
                  /\ report_success' = <<ok>>
                  /\ report_generation_successful' = ok
                  /\ deployment_successful' = IF ok THEN deployment_successful ELSE FALSE
                  /\ ppc' = AfterReport(ok)
       ELSE /\ report_generation_successful' = TRUE
            /\ deployment_successful' = TRUE
            /\ ppc' = "notify"
            /\ UNCHANGED <<steps, report_success>>
    /\ UNCHANGED <<environ, test_run_successful, exit_code, deployed, pexc, exit_status>>
    /\ UNCHANGED othersPipeline

\* Step 4: _handle_report_deployment, where upload_report_to_ecs returns
\* upload_result and fix_local_permissions returns fix_result
DeployReport ==
    /\ ppc = "deploy"
    /\ steps' = Append(steps, "deploy")
    /\ \E upload_result \in BOOLEAN, fix_result \in BOOLEAN :
          /\ deployment_successful' = HandleReportDeployment(environ, upload_result, fix_result)
          /\ deployed' = IF environ["UPLOAD_REPORT"]
                         THEN IF environ["ECS_HOST"] /\ upload_result THEN "uploaded" ELSE "failed"
                         ELSE IF environ["CI"]
                              THEN IF fix_result THEN "permissions fixed" ELSE "failed"
                              ELSE "nothing to do"
    /\ ppc' = "notify"
    /\ UNCHANGED <<environ, test_run_successful, report_generation_successful,
                   exit_code, report_success, pexc, exit_status>>
    /\ UNCHANGED othersPipeline

\* Step 5: _send_notification.  With EMAIL_ENABLED it calls
\* send_report_email(summary, upload_successful); an exception that leaves
\* it leaves main as well, and the interpreter ends with status 1.
SendNotification ==
    /\ ppc = "notify"
    /\ steps' = Append(steps, "notify")
    /\ IF environ["EMAIL_ENABLED"] /\ CallRaises(SendReportEmailParams, SendReportEmailArgs)
       THEN /\ pexc' = "TypeError"
            /\ exit_status' = <<1>>
            /\ ppc' = "exited"
       ELSE /\ ppc' = "exit"
            /\ UNCHANGED <<pexc, exit_status>>
    /\ UNCHANGED <<environ, test_run_successful, report_generation_successful,
                   deployment_successful, exit_code, report_success, deployed>>
    /\ UNCHANGED othersPipeline

\* sys.exit at the end of main
MainExits ==
    /\ ppc = "exit"
    /\ exit_status' = <<ExitStatus(test_run_successful, report_generation_successful,
                                   deployment_successful)>>
    /\ ppc' = "exited"
    /\ UNCHANGED <<environ, test_run_successful, report_generation_successful,
                   deployment_successful, steps, exit_code, report_success, deployed, pexc>>
    /\ UNCHANGED othersPipeline

NextPipeline ==
    \/ MainStarts
    \/ Prepare
    \/ ExecuteTests
    \/ GenerateReport
    \/ DeployReport
    \/ SendNotification
    \/ MainExits

SpecPipeline == InitQuiet /\ [][NextPipeline]_vars

\* create_unified_order, step 1: prepare the parameters and sign them.
PrepareAndSign ==
    /\ cpc # "prepared"
    /\ \E outcome \in PrepareOutcomes :
          /\ failure' = IF outcome = "ok" THEN "none" ELSE outcome
          /\ cpc' = IF outcome = "ok" THEN "prepared" ELSE "raised"
          /\ pay_exc' = IF outcome = "ok" THEN "none"
                        ELSE IF PrepareCaught(outcome) THEN "ApiRequestError"
                        ELSE outcome
    /\ response_json' = NoBody
    /\ validated_response' = NoBody
    /\ UNCHANGED othersPayment

\* create_unified_order, step 2: send the request, parse and validate the
\* response.  Every exception of this step is caught and raised again as
\* ApiRequestError.
SendAndValidate ==
    /\ cpc = "prepared"
    /\ \E outcome \in SendOutcomes, body \in ResponseBodies :
          IF outcome = "json"
          THEN /\ response_json' = body
               /\ IF ModelValidate(body)
                  THEN /\ cpc' = "returned"
                       /\ validated_response' = body
                       /\ UNCHANGED <<failure, pay_exc>>
                  ELSE /\ cpc' = "raised"
                       /\ failure' = "ValidationError"
                       /\ pay_exc' = "ApiRequestError"
                       /\ UNCHANGED validated_response
          ELSE /\ cpc' = "raised"
               /\ failure' = outcome
               /\ pay_exc' = "ApiRequestError"
               /\ UNCHANGED <<response_json, validated_response>>
    /\ UNCHANGED othersPayment

NextPayment ==
    \/ PrepareAndSign
    \/ SendAndValidate

SpecPayment == InitQuiet /\ [][NextPayment]_vars

\* login_with_captcha is called on a page configured with max_retry = max:
\* user name and password are filled in and the loop is reached.
LoginWithCaptchaCalled ==
    /\ lpc # "loop"
    /\ max_captcha_attempts' \in 0..MaxCaptchaAttempts
    /\ lpc' = "loop"
    /\ captcha_attempts' = 0
    /\ submissions' = 0
    /\ attempt_log' = <<>>
    /\ login_result' = "None"
    /\ login_exc' = "none"
    /\ UNCHANGED othersLogin

\* One pass of the loop.  has_captcha: has_captcha_input(); recognized:
\* recognize_captcha and fill_captcha went through (no CaptchaError);
\* refreshed: refresh_captcha went through; verdict: how the submitted form
\* was judged.
CaptchaAttempt ==
    /\ lpc = "loop"
    /\ MayAttempt(captcha_attempts, max_captcha_attempts)
    /\ captcha_attempts' = captcha_attempts + 1
    /\ \E has_captcha \in BOOLEAN, recognized \in BOOLEAN, refreshed \in BOOLEAN,
          verdict \in Verdicts :
          IF has_captcha /\ ~recognized
          THEN /\ UNCHANGED <<submissions, login_result>>
               /\ IF LastAttempt(captcha_attempts', max_captcha_attempts) \/ ~refreshed
                  THEN /\ lpc' = "raised"
                       /\ login_exc' = "LoginError"
                       /\ attempt_log' = Append(attempt_log, "captcha not recognized")
                  ELSE /\ attempt_log' = Append(attempt_log, "captcha refreshed")
                       /\ UNCHANGED <<lpc, login_exc>>
          ELSE /\ submissions' = submissions + 1
               /\ attempt_log' = Append(attempt_log,
                                        IF verdict = "captcha error" /\ ~refreshed
                                           /\ ~LastAttempt(captcha_attempts', max_captcha_attempts)
                                        THEN "captcha error, not refreshed"
                                        ELSE verdict)
               /\ IF verdict = "success"
                  THEN /\ lpc' = "returned"
                       /\ login_result' = "DashboardPage"
                       /\ UNCHANGED login_exc
                  ELSE IF verdict = "captcha error"
                          /\ ~LastAttempt(captcha_attempts', max_captcha_attempts)
                  THEN UNCHANGED <<lpc, login_result, login_exc>>
                  ELSE /\ lpc' = "raised"
                       /\ login_exc' = "LoginError"
                       /\ UNCHANGED login_result
    /\ UNCHANGED max_captcha_attempts
    /\ UNCHANGED othersLogin

\* The loop ends with the attempts used up: raise LoginError.
AttemptsUsedUp ==
    /\ lpc = "loop"
    /\ ~MayAttempt(captcha_attempts, max_captcha_attempts)
    /\ lpc' = "raised"
    /\ login_exc' = "LoginError"
    /\ UNCHANGED <<max_captcha_attempts, captcha_attempts, submissions, attempt_log,
                   login_result>>
    /\ UNCHANGED othersLogin

NextLogin ==
    \/ LoginWithCaptchaCalled
    \/ CaptchaAttempt
    \/ AttemptsUsedUp

SpecLogin == InitQuiet /\ [][NextLogin]_vars

\* One pass of the loop of _register_all: the next class of the list is
\* instantiated and registered.
RegisterAllStep ==
    /\ cpos < Len(PlaywrightHandlers)
    /\ cpos' = cpos + 1
    /\ handlers' = Append(handlers, PlaywrightHandlers[cpos + 1])
    /\ handler_map' = MapAfterRegister(handler_map, PlaywrightHandlers[cpos + 1])
    /\ UNCHANGED <<register_exc, gc_condition, gc_handler, gc_outcome>>
    /\ UNCHANGED othersRegistry

\* register_handler called on the constructed registry.
RegisterHandlerCalled ==
    /\ cpos = Len(PlaywrightHandlers)
    /\ Len(handlers) < MaxHandlers
    /\ \E handler \in Registrable :
          IF handler = "object"
          THEN /\ register_exc' = "TypeError"
               /\ UNCHANGED <<handlers, handler_map>>
          ELSE /\ register_exc' = "none"
               /\ handlers' = Append(handlers, handler)
               /\ handler_map' = MapAfterRegister(handler_map, handler)
    /\ UNCHANGED <<cpos, gc_condition, gc_handler, gc_outcome>>
    /\ UNCHANGED othersRegistry

\* PlaywrightWaitStrategy._get_condition_function(condition, args), as wait_for
\* calls it for an ElementCondition; has_selector: 'selector' in args.
GetConditionFunction ==
    /\ cpos = Len(PlaywrightHandlers)
    /\ \E condition \in ElementCondition, has_selector \in BOOLEAN :
          LET handler == GetHandler(handler_map, condition)
          IN /\ gc_condition' = <<condition>>
             /\ gc_handler' = handler
             /\ gc_outcome' = IF handler = "None" THEN "ValueError: unsupported condition"
                              ELSE IF ~has_selector THEN "ValueError: selector missing"
                              ELSE "condition function"
    /\ UNCHANGED <<cpos, handlers, handler_map, register_exc>>
    /\ UNCHANGED othersRegistry

NextRegistry ==
    \/ RegisterAllStep
    \/ RegisterHandlerCalled
    \/ GetConditionFunction

SpecRegistry == InitQuiet /\ [][NextRegistry]_vars

\* ----------------------------------------------------- claims on the waits
\* C1: a wait stops at the first condition_fn() call that returns a truthy
\* value: from then on the call has returned, its result is exactly that
\* value, and neither condition_fn() nor sleep() was called after it; and a
\* wait returns only such a value.
C1_StopsAtFirstTruthy ==
    /\ first_truthy # "none" =>
          /\ wpc = "returned"
          /\ result = first_truthy
          /\ after_truthy = 0
    /\ wpc = "returned" => result \in TruthyValues /\ result = first_truthy

C1_Witness ==
    /\ wpc = "returned"
    /\ attempt_count >= 2
    /\ result = "loc2"
    /\ entry = "wait_until"

\* C2: while every condition_fn() call has returned a falsy value the wait
\* never returns; it raises nothing but TimeoutError, and only when the clock
\* has reached the deadline start_time + actual_timeout; and a pass whose
\* clock read is at or past the deadline does not go on to sleep.
C2_TimeoutOnlyAtDeadline ==
    all_falsy =>
       /\ end_time = start_time + actual_timeout
       /\ wpc # "returned"
       /\ (wpc = "raised" /\ wsrc # "precheck") =>
             /\ wexc = "TimeoutError"
             /\ wsrc = "deadline"
             /\ now >= end_time
       /\ wpc = "sleeping" => now < end_time /\ wait_time <= end_time - now

C2_Witness ==
    /\ wpc = "raised"
    /\ wsrc = "deadline"
    /\ wexc = "TimeoutError"
    /\ all_falsy
    /\ attempt_count >= 3
    /\ now >= end_time

\* P * B^k, rounded down to the tick.
Scaled(p, factor, k) == (p * Pow(factor[1], k)) \div Pow(factor[2], k)

\* C3: the pause computed before the k-th re-poll is min(P * B^(k-1), M),
\* so the first pause is P (the sleep itself may be cut to the time left).
C3_PauseIsGeometricFromP ==
    wpc = "sleeping" =>
       /\ current_poll_frequency =
             Min(Scaled(actual_poll_frequency, backoff_factor, attempt_count - 1),
                 max_poll_frequency)
       /\ wait_time = Min(current_poll_frequency, end_time - now)

\* C4 as stated: every TimeoutError of the poller reports the elapsed time.
C4_AlwaysReportsElapsed ==
    (wpc = "raised" /\ wsrc = "deadline") => error_msg.text = "elapsed"

\* C4 as amended: the TimeoutError of the poller carries the caller's message
\* when one was given; without one, wait_until reports the elapsed time
\* (read before the deadline check), while wait_for and wait_for_any carry
\* their own default text, which names the configured timeout.
C4_MessageOfTimeout ==
    (wpc = "raised" /\ wsrc = "deadline") =>
       IF caller_message \notin {"None", ""}
       THEN error_msg.text = caller_message
       ELSE IF entry = "wait_until"
       THEN /\ error_msg.text = "elapsed"
            /\ error_msg.secs <= now - start_time
            /\ error_msg.secs >= 0
       ELSE /\ error_msg.text =
                  (IF entry = "wait_for" THEN "condition_timeout" ELSE "any_timeout")
            /\ error_msg.secs = actual_timeout

C4_Witness ==
    /\ wpc = "raised"
    /\ wsrc = "deadline"
    /\ entry = "wait_for"
    /\ caller_message = "None"
    /\ error_msg.text = "condition_timeout"

\* C5: wait_for_any returns as soon as a pass finds a truthy condition, with
\* the result of the lowest-index truthy condition of that pass, and raises
\* TimeoutError only when no condition was truthy in any pass.
C5_AnyReturnsFirstTruthy ==
    entry = "wait_for_any" =>
       /\ any_truthy => wpc = "returned"
       /\ wpc = "returned" =>
             \E i \in DOMAIN cycle :
                /\ cycle[i] \in TruthyValues
                /\ result = cycle[i]
                /\ \A j \in 1..(i - 1) : cycle[j] \notin TruthyValues
       /\ wexc = "TimeoutError" => ~any_truthy /\ wsrc = "deadline"

C5_Witness ==
    /\ entry = "wait_for_any"
    /\ wpc = "returned"
    /\ attempt_count >= 2
    /\ nconds = 2
    /\ cycle[1] \in CondExceptions
    /\ result = cycle[2]

\* C6: out of the polling phase of wait_for, the expiry of the deadline
\* comes as TimeoutError, an exception of the condition that is not a
\* TimeoutError comes as ConditionNotMetError, and nothing else comes out
\* (a TimeoutError raised by the condition itself is re-raised as it is).
C6_WaitForExceptionTypes ==
    (entry = "wait_for" /\ wpc = "raised" /\ wsrc # "precheck") =>
       /\ wexc \in {"TimeoutError", "ConditionNotMetError"}
       /\ wsrc = "deadline" => wexc = "TimeoutError"
       /\ (wsrc = "condition" /\ cond_exc # "TimeoutError") =>
             wexc = "ConditionNotMetError"
       /\ (wsrc = "condition" /\ cond_exc = "TimeoutError") => wexc = "TimeoutError"

C6_Witness ==
    /\ entry = "wait_for"
    /\ wpc = "raised"
    /\ wsrc = "condition"
    /\ cond_exc = "ValueError"
    /\ wexc = "ConditionNotMetError"
    /\ attempt_count >= 2

\* ----------------------------------------------------- claims on WebDriver
\* C7: when __exit__ is over, having raised or not, with or without an
\* exception of the with body and whichever close calls failed, close/stop
\* was attempted on every handle acquired, the four fields are None and the
\* driver is marked closed.
C7_ExitReleasesEverything ==
    dop = "exit" =>
       /\ unclosed = {}
       /\ handles = NoHandles
       /\ is_closed

C7_Witness ==
    /\ dop = "exit"
    /\ body_raised
    /\ close_failed = {"page", "browser"}
    /\ handles = NoHandles
    /\ is_closed

\* C8: when a startup step of __enter__ fails, __enter__ raises
\* DriverInitError and every handle acquired before the failure has had its
\* close attempted and its field cleared.
C8_FailedEnterCleansUp ==
    (dop = "enter" /\ fail_point # "nowhere") =>
       /\ dexc = "DriverInitError"
       /\ unclosed = {}
       /\ handles = NoHandles

C8_Witness ==
    /\ dop = "enter"
    /\ fail_point = "page"
    /\ close_failed = {"context"}
    /\ dexc = "DriverInitError"
    /\ unclosed = {}

\* C9 as stated: __exit__ raises DriverError whenever a close fails.
C9_ExitRaisesOnAnyCloseFailure ==
    (dop = "exit" /\ close_failed # {}) => dexc = "DriverError"

\* C9 as amended: __exit__ raises DriverError exactly when a close fails and
\* it was given no exception of the with body; given one, it returns, and
\* it raises nothing else.
C9_ExitRaisesUnlessBodyRaised ==
    dop = "exit" =>
       /\ dexc \in {"none", "DriverError"}
       /\ dexc = "DriverError" <=> (close_failed # {} /\ ~body_raised)

C9_Witness ==
    /\ dop = "exit"
    /\ close_failed # {}
    /\ ~body_raised
    /\ dexc = "DriverError"

\* C10: a navigation method raises DriverNotStartedError on a driver that
\* was not started or is closed, and NavigationError only when the
\* navigation itself fails.
C10_NavigationErrorTypes ==
    dop \in NavOps =>
       /\ ~was_started => dexc = "DriverNotStartedError"
       /\ dexc = "NavigationError" => nav_failed

\* ---------------------------------------------- claims on the configuration
\* No layer holds a non-dict value above path p, so that a value at p can
\* exist together with what every layer defines.
Unshadowed(p) ==
    \A n \in 1..(Len(p) - 1), level \in ConfigLevels :
        SubSeq(p, 1, n) \in DOMAIN config_layers[level]
            => config_layers[level][SubSeq(p, 1, n)] = "dict"

\* The positions in CONFIG_PRIORITY_ORDER of the layers that define path p.
Defining(p) ==
    {i \in 1..Len(CONFIG_PRIORITY_ORDER) : p \in DOMAIN config_layers[CONFIG_PRIORITY_ORDER[i]]}

HighestDefining(p) ==
    config_layers[CONFIG_PRIORITY_ORDER[CHOOSE i \in Defining(p) : \A j \in Defining(p) : i <= j]]

\* C11: after load_config the merged configuration gives each key the value
\* of the highest-priority layer that defines it (ENV_VAR > LOCAL > TEST >
\* ENVIRONMENT > DEFAULT).
C11_HighestPriorityLayerWins ==
    initialized =>
        \A p \in LayerPaths :
            (Defining(p) # {} /\ Unshadowed(p) /\ HighestDefining(p)[p] # "dict")
                => (p \in DOMAIN merged_config /\ merged_config[p] = HighestDefining(p)[p])

\* source and destination never hold a dict on one side and a non-dict value
\* on the other at the same path, so that every key path of both can be
\* kept.
Compatible(s, d) ==
    /\ \A p \in DOMAIN s \cap DOMAIN d : (s[p] = "dict") <=> (d[p] = "dict")

\* C12: deep_merge(source, destination) keeps every key path of either
\* input and, wherever source holds a non-dict value, holds source's value,
\* at any depth.
C12_DeepMergeIsRecursive ==
    (dm_done /\ Compatible(dm_source, dm_destination)) =>
        /\ (DOMAIN dm_source \cup DOMAIN dm_destination) \subseteq DOMAIN dm_result
        /\ \A p \in DOMAIN dm_source :
              dm_source[p] # "dict" => dm_result[p] = dm_source[p]

\* --------------------------------------------------------- claims on retry
\* An invocation that raised an exception the decorator retries on.
Retriable(outcome) ==
    /\ outcome \in Raised
    /\ IsInstance(outcome, "Exception")
    /\ ~exceptions.given \/ \E class \in exceptions.classes : IsInstance(outcome, class)

\* C13: a function wrapped with retry(max_attempts=n, exceptions=E) is
\* invoked at most n times per call; every invocation but the last raised an
\* exception matching E; a successful invocation is the last one and its
\* result is returned; an exception that does not match E is raised at once;
\* the exception of the n-th failed invocation is raised.
C13_RetryContract ==
    LET k == Len(invocations)
    IN  /\ k <= max_attempts
        /\ \A i \in 1..(k - 1) : Retriable(invocations[i])
        /\ k > 0 =>
             LET last == invocations[k]
             IN  /\ last \in Results => (rpc = "returned" /\ retry_result = last)
                 /\ (last \in Raised /\ ~Retriable(last)) => (rpc = "raised" /\ retry_exc = last)
                 /\ (last \in Raised /\ k = max_attempts) => (rpc = "raised" /\ retry_exc = last)
                 /\ (Retriable(last) /\ k < max_attempts) => rpc = "calling"
        /\ rpc = "returned" => (k > 0 /\ invocations[k] = retry_result)
        /\ rpc = "raised" => (k > 0 /\ invocations[k] = retry_exc)

\* A call that fails max_attempts - 1 times with a matching exception and
\* then succeeds, under a list of exception classes.
C13_Witness ==
    /\ rpc = "returned"
    /\ exceptions.given
    /\ max_attempts >= 2
    /\ Len(invocations) = max_attempts

\* ------------------------------------------------ claims on run_and_notify
TestsSucceededOrSkipped == environ["SKIP_TEST_EXECUTION"] \/ exit_code = <<0>>
ReportSucceededOrSkipped == environ["SKIP_REPORT_GENERATION"] \/ report_success = <<TRUE>>
\* Nothing to deploy (report generation skipped, or neither an upload nor a
\* CI permission fix asked for) counts as a deployment that succeeded.
DeploymentSucceeded ==
    \/ environ["SKIP_REPORT_GENERATION"]
    \/ deployed \in {"uploaded", "permissions fixed", "nothing to do"}

\* C14: run_and_notify exits with status 0 exactly when test execution
\* succeeded or was skipped, report generation succeeded or was skipped and
\* the deployment succeeded, and with status 1 in every other run.
C14_ExitStatusReflectsSteps ==
    ppc = "exited" =>
        IF TestsSucceededOrSkipped /\ ReportSucceededOrSkipped /\ DeploymentSucceeded
        THEN exit_status = <<0>>
        ELSE exit_status = <<1>>

PipelineOrder == <<"prepare", "tests", "report", "deploy", "notify">>
Position(step) == CHOOSE i \in 1..Len(PipelineOrder) : PipelineOrder[i] = step

C17_ReturnedResponseConsistent ==
    cpc = "returned" =>
        LET r == validated_response
        IN  /\ r.return_code = "SUCCESS" => r.result_code # "None"
            /\ r.result_code = "SUCCESS" => r.pay_url # "None"
            /\ r.result_code \in {"FAIL", "FAILED"}
                  => (r.err_code # "None" /\ r.err_msg # "None")

\* C17 as the code has it: the checks on result_code are made only for a
\* response whose return_code is SUCCESS.
C17_ConsistentWhenReturnCodeSuccess ==
    cpc = "returned" =>
        LET r == validated_response
        IN  r.return_code = "SUCCESS" =>
              /\ r.result_code # "None"
              /\ r.result_code = "SUCCESS" => r.pay_url # "None"
              /\ r.result_code \in {"FAIL", "FAILED"}
                    => (r.err_code # "None" /\ r.err_msg # "None")

\* A business failure that was returned, with its error code and message.
C17_Witness ==
    /\ cpc = "returned"
    /\ validated_response.return_code = "SUCCESS"
    /\ validated_response.result_code = "FAILED"
    /\ validated_response.err_code # "None"

C19_EveryConditionHasHandler ==
    cpos = Len(PlaywrightHandlers) =>
        /\ \A condition \in ElementCondition :
              /\ GetHandler(handler_map, condition) # "None"
              /\ HandlerMatches(GetHandler(handler_map, condition), condition)
        /\ gc_outcome # "ValueError: unsupported condition"

====
